---------------------------- MODULE Spec2Model ----------------------------
(***************************************************************************)
(* Segmentation evaluation metrics of eval_data.py: pixel accuracy, mean   *)
(* class accuracy, mean IU, frequency weighted IU over label volumes, and  *)
(* the Dice / Jaccard coefficients over flattened tensors.                 *)
(*                                                                         *)
(* An array is a record [shape, data]: shape is the tuple of its axis      *)
(* lengths and data its elements in row-major order, Len(data) being the   *)
(* product of the axis lengths.  Numbers produced by a true division are   *)
(* exact rationals [k |-> "num", n, d] in lowest terms; k = "nan" and      *)
(* k = "inf" are the values numpy's scalar division gives for 0/0 and x/0. *)
(***************************************************************************)
EXTENDS Integers, Sequences, FiniteSets, TLC

VARIABLES eval_segm, gt_segm, pred, target, pc, arg, ret

vars == <<eval_segm, gt_segm, pred, target, pc, arg, ret>>

(* Bounds of the model. *)
MaxVoxels == 4
MaxDim == 2
MaxLabel == 2
MaxElems == 2
MaxK == 2

(* A label volume needs three axes: segm_size reads shape[0..2]. *)
NumAxes == 3

Labels == 0..MaxLabel

(* ------------------------------ numbers ------------------------------ *)

Abs(x) == IF x < 0 THEN -x ELSE x

RECURSIVE Gcd(_, _)
Gcd(a, b) == IF b = 0 THEN a ELSE Gcd(b, a % b)

(* The rational n/d (d # 0) in lowest terms with a positive denominator. *)
Rat(n, d) ==
    LET g == Gcd(Abs(n), Abs(d))
        s == IF d < 0 THEN -1 ELSE 1
    IN  [k |-> "num", n |-> s * (n \div g), d |-> s * (d \div g)]

Whole(n) == [k |-> "num", n |-> n, d |-> 1]
NaN == [k |-> "nan", n |-> 0, d |-> 0]
Inf(s) == [k |-> "inf", n |-> s, d |-> 0]

IsNum(x) == x.k = "num"
Sign(x) == IF x.n > 0 THEN 1 ELSE IF x.n < 0 THEN -1 ELSE 0

(* a + b of floating point values. *)
Add(a, b) ==
    IF a.k = "nan" \/ b.k = "nan" THEN NaN
    ELSE IF a.k = "inf" /\ b.k = "inf" THEN (IF a.n = b.n THEN a ELSE NaN)
    ELSE IF a.k = "inf" THEN a
    ELSE IF b.k = "inf" THEN b
    ELSE Rat(a.n * b.d + b.n * a.d, a.d * b.d)

(* a * b of floating point values. *)
Mul(a, b) ==
    IF a.k = "nan" \/ b.k = "nan" THEN NaN
    ELSE IF a.k = "inf" \/ b.k = "inf"
         THEN (IF Sign(a) * Sign(b) = 0 THEN NaN ELSE Inf(Sign(a) * Sign(b)))
    ELSE Rat(a.n * b.n, a.d * b.d)

Neg(a) == IF a.k = "nan" THEN a ELSE [a EXCEPT !.n = -a.n]

(* a / b where an operand is a numpy (or torch) scalar: 0/0 is nan and    *)
(* x/0 is an infinity, with a warning and no exception.                    *)
TrueDivide(a, b) ==
    IF a.k = "nan" \/ b.k = "nan" THEN NaN
    ELSE IF a.k = "inf" THEN (IF b.k = "inf" THEN NaN
                              ELSE Inf(a.n * (IF Sign(b) < 0 THEN -1 ELSE 1)))
    ELSE IF b.k = "inf" THEN Whole(0)
    ELSE IF b.n = 0 THEN (IF a.n = 0 THEN NaN ELSE Inf(Sign(a)))
    ELSE Rat(a.n * b.d, a.d * b.n)

(* a <= b for two finite numbers. *)
Leq(a, b) == a.n * b.d <= b.n * a.d

(* ------------------------------ arrays ------------------------------- *)

RECURSIVE Prod(_)
Prod(s) == IF s = <<>> THEN 1 ELSE Head(s) * Prod(Tail(s))

ShapesOfRank(r) == {s \in [1..r -> 0..MaxDim] : Prod(s) <= MaxVoxels}

ArraysOfShape(s) == {[shape |-> s, data |-> d] : d \in [1..Prod(s) -> Labels]}

Volumes(r) == UNION {ArraysOfShape(s) : s \in ShapesOfRank(r)}

RECURSIVE SortedSeq(_)
SortedSeq(S) ==
    IF S = {} THEN <<>>
    ELSE LET m == CHOOSE x \in S : \A y \in S : x <= y
         IN  <<m>> \o SortedSeq(S \ {m})

(* np.unique: the sorted distinct elements of an array. *)
np_unique(a) == SortedSeq({a[i] : i \in DOMAIN a})

(* np.union1d: unique of the concatenation. *)
np_union1d(a, b) == np_unique(a \o b)

(* np.sum of a sequence of integers (a mask slice, a boolean array). *)
RECURSIVE np_sum(_)
np_sum(a) == IF a = <<>> THEN 0 ELSE Head(a) + np_sum(Tail(a))

(* np.sum of a list of numbers: 0.0 for the empty list. *)
RECURSIVE np_sum_num(_)
np_sum_num(a) == IF a = <<>> THEN Whole(0) ELSE Add(Head(a), np_sum_num(Tail(a)))

(* np.mean of a list of numbers: the mean of an empty list is nan. *)
np_mean(a) == TrueDivide(np_sum_num(a), Whole(Len(a)))

(* np.logical_and of two equal-shaped arrays, as 0/1. *)
np_logical_and(a, b) ==
    [v \in DOMAIN a |-> IF a[v] # 0 /\ b[v] # 0 THEN 1 ELSE 0]

(* ----------------------- auxiliary functions ------------------------- *)

NoExc == "none"
IndexError == "IndexError"

(* Mutant of get_pixel_area: the area of the first two axes only. *)
get_pixel_area_two_axes(segm) ==
    IF Len(segm.shape) < NumAxes
    THEN [exc |-> IndexError, val |-> 0]
    ELSE [exc |-> NoExc, val |-> segm.shape[1] * segm.shape[2]]

(* segm.shape[0] * segm.shape[1] * segm.shape[2]: a missing axis raises. *)
get_pixel_area(segm) ==
    IF Len(segm.shape) < NumAxes
    THEN [exc |-> IndexError, val |-> 0]
    ELSE [exc |-> NoExc,
          val |-> segm.shape[1] * segm.shape[2] * segm.shape[3]]

extract_classes(segm) ==
    LET cl == np_unique(segm.data)
    IN  [cl |-> cl, n_cl |-> Len(cl)]

union_classes(e_segm, g_segm) ==
    LET eval_cl == extract_classes(e_segm).cl
        gt_cl == extract_classes(g_segm).cl
        cl == np_union1d(eval_cl, gt_cl)
    IN  [cl |-> cl, n_cl |-> Len(cl)]

(* Mutant of segm_size: the except clause swallows the IndexError and     *)
(* returns an empty size.                                                  *)
segm_size_swallowed(segm) ==
    IF Len(segm.shape) < NumAxes
    THEN [exc |-> NoExc, val |-> <<0, 0, 0>>]
    ELSE [exc |-> NoExc,
          val |-> <<segm.shape[1], segm.shape[2], segm.shape[3]>>]

(* shape[0], shape[1], shape[2]: the first missing axis raises IndexError, *)
(* which the except clause re-raises.                                      *)
segm_size(segm) ==
    IF Len(segm.shape) < NumAxes
    THEN [exc |-> IndexError, val |-> <<>>]
    ELSE [exc |-> NoExc,
          val |-> <<segm.shape[1], segm.shape[2], segm.shape[3]>>]

(* masks = np.zeros((n_cl, h, w, d)), then slice i = (segm == cl[i]) for   *)
(* each i of enumerate(cl); a slice index beyond n_cl raises IndexError.   *)
RECURSIVE FillMasks(_, _, _, _)
FillMasks(masks, segm, cl, i) ==
    IF i > Len(cl) THEN [exc |-> NoExc, masks |-> masks]
    ELSE IF i > Len(masks) THEN [exc |-> IndexError, masks |-> <<>>]
    ELSE FillMasks(
           [masks EXCEPT ![i] =
               [v \in DOMAIN segm.data |-> IF segm.data[v] = cl[i] THEN 1 ELSE 0]],
           segm, cl, i + 1)

extract_masks(segm, cl, n_cl) ==
    LET sz == segm_size(segm)
    IN  IF sz.exc # NoExc
        THEN [exc |-> sz.exc, shape |-> <<>>, masks |-> <<>>]
        ELSE LET h == sz.val[1]
                 w == sz.val[2]
                 d == sz.val[3]
                 zeros == [i \in 1..n_cl |-> [v \in 1..(h * w * d) |-> 0]]
                 filled == FillMasks(zeros, segm, cl, 1)
             IN  [exc |-> filled.exc,
                  shape |-> IF filled.exc = NoExc THEN <<n_cl, h, w, d>> ELSE <<>>,
                  masks |-> filled.masks]

(* Mutant of extract_both_masks: gt_mask is built from eval_segm too. *)
extract_both_masks_one_source(e_segm, g_segm, cl, n_cl) ==
    LET eval_mask == extract_masks(e_segm, cl, n_cl)
    IN  IF eval_mask.exc # NoExc
        THEN [exc |-> eval_mask.exc, eval_mask |-> eval_mask, gt_mask |-> eval_mask]
        ELSE LET gt_mask == extract_masks(e_segm, cl, n_cl)
             IN  [exc |-> gt_mask.exc, eval_mask |-> eval_mask, gt_mask |-> gt_mask]

(* eval_mask is built first; an exception of either call propagates. *)
extract_both_masks(e_segm, g_segm, cl, n_cl) ==
    LET eval_mask == extract_masks(e_segm, cl, n_cl)
    IN  IF eval_mask.exc # NoExc
        THEN [exc |-> eval_mask.exc, eval_mask |-> eval_mask, gt_mask |-> eval_mask]
        ELSE LET gt_mask == extract_masks(g_segm, cl, n_cl)
             IN  [exc |-> gt_mask.exc, eval_mask |-> eval_mask, gt_mask |-> gt_mask]

(* ------------------------------ metrics ------------------------------ *)

(* A call that raised returns nothing: NoValue stands where a score would. *)
NoValue == [k |-> "none", n |-> 0, d |-> 0]
Raised(e) == [exc |-> e, val |-> NoValue, stats |-> <<>>]
Returned(v, st) == [exc |-> NoExc, val |-> v, stats |-> st]

(* The confusion counts of class i, read from the two aligned mask stacks. *)
Counts(eval_mask, gt_mask, i) ==
    [n_ii |-> np_sum(np_logical_and(eval_mask[i], gt_mask[i])),
     t_i  |-> np_sum(gt_mask[i]),
     n_ij |-> np_sum(eval_mask[i])]

(* pixel_accuracy: the loop adds n_ii and t_i of each class to the sums. *)
RECURSIVE pixel_accuracy_loop(_, _, _, _, _)
pixel_accuracy_loop(eval_mask, gt_mask, n, i, acc) ==
    IF i > n THEN acc
    ELSE LET c == Counts(eval_mask, gt_mask, i)
         IN  pixel_accuracy_loop(eval_mask, gt_mask, n, i + 1,
               [sum_n_ii |-> acc.sum_n_ii + c.n_ii,
                sum_t_i  |-> acc.sum_t_i + c.t_i])

(* Mutant of pixel_accuracy_result: the test of sum_t_i is inverted. *)
pixel_accuracy_result_inverted(sum_n_ii, sum_t_i) ==
    IF sum_t_i # 0 THEN Whole(0)
    ELSE TrueDivide(Whole(sum_n_ii), Whole(sum_t_i))

(* if (sum_t_i == 0): 0 else sum_n_ii / sum_t_i *)
pixel_accuracy_result(sum_n_ii, sum_t_i) ==
    IF sum_t_i = 0 THEN Whole(0)
    ELSE TrueDivide(Whole(sum_n_ii), Whole(sum_t_i))

pixel_accuracy(e_segm, g_segm) ==
    LET c == extract_classes(g_segm)
        m == extract_both_masks(e_segm, g_segm, c.cl, c.n_cl)
    IN  IF m.exc # NoExc THEN Raised(m.exc)
        ELSE LET acc == pixel_accuracy_loop(m.eval_mask.masks, m.gt_mask.masks,
                            Len(c.cl), 1, [sum_n_ii |-> 0, sum_t_i |-> 0])
             IN  Returned(pixel_accuracy_result(acc.sum_n_ii, acc.sum_t_i),
                          <<acc>>)

(* accuracy[i] = n_ii / t_i if t_i != 0, else it keeps its initial 0. *)
mean_accuracy_class(c) ==
    IF c.t_i # 0 THEN TrueDivide(Whole(c.n_ii), Whole(c.t_i)) ELSE Whole(0)

mean_accuracy(e_segm, g_segm) ==
    LET c == extract_classes(g_segm)
        m == extract_both_masks(e_segm, g_segm, c.cl, c.n_cl)
    IN  IF m.exc # NoExc THEN Raised(m.exc)
        ELSE LET accuracy ==
                   [i \in 1..c.n_cl |->
                      mean_accuracy_class(
                        Counts(m.eval_mask.masks, m.gt_mask.masks, i))]
             IN  Returned(np_mean(accuracy), accuracy)

(* Mutant of IU_skip: a class is skipped only when both masks are empty. *)
IU_skip_both_empty(eval_sum, gt_sum) == (eval_sum = 0) /\ (gt_sum = 0)

(* if (np.sum(curr_eval_mask) == 0) or (np.sum(curr_gt_mask) == 0): continue *)
IU_skip(eval_sum, gt_sum) == (eval_sum = 0) \/ (gt_sum = 0)

(* Mutant of IU_denominator: the intersection is not subtracted. *)
IU_denominator_sum(t_i, n_ij, n_ii) == t_i + n_ij

(* t_i + n_ij - n_ii *)
IU_denominator(t_i, n_ij, n_ii) == t_i + n_ij - n_ii

(* Mutant of IU_quotient: the parentheses of the denominator are missing, *)
(* n_ii / t_i + n_ij - n_ii.                                               *)
IU_quotient_no_parentheses(n_ii, t_i, n_ij) ==
    Add(TrueDivide(Whole(n_ii), Whole(t_i)), Whole(n_ij - n_ii))

(* n_ii / (t_i + n_ij - n_ii) *)
IU_quotient(n_ii, t_i, n_ij) ==
    TrueDivide(Whole(n_ii), Whole(IU_denominator(t_i, n_ij, n_ii)))

(* (t_i * n_ii) / (t_i + n_ij - n_ii) *)
weighted_IU_quotient(n_ii, t_i, n_ij) ==
    TrueDivide(Whole(t_i * n_ii), Whole(IU_denominator(t_i, n_ij, n_ii)))

(* One pass of the loop of mean_IU: the entry IU[i] and what it was        *)
(* computed from.                                                          *)
mean_IU_class(eval_mask, gt_mask, i) ==
    LET c == Counts(eval_mask, gt_mask, i)
        den == IU_denominator(c.t_i, c.n_ij, c.n_ii)
    IN  IF IU_skip(np_sum(eval_mask[i]), np_sum(gt_mask[i]))
        THEN [skipped |-> TRUE, n_ii |-> 0, t_i |-> 0, n_ij |-> 0, den |-> 0,
              v |-> Whole(0)]
        ELSE [skipped |-> FALSE, n_ii |-> c.n_ii, t_i |-> c.t_i,
              n_ij |-> c.n_ij, den |-> den,
              v |-> IU_quotient(c.n_ii, c.t_i, c.n_ij)]

(* Mutant of mean_IU_divisor: the size of the union class set. *)
mean_IU_divisor_union(n_cl, n_cl_gt) == n_cl

(* np.sum(IU) / n_cl_gt *)
mean_IU_divisor(n_cl, n_cl_gt) == n_cl_gt

mean_IU(e_segm, g_segm) ==
    LET u == union_classes(e_segm, g_segm)
        n_cl_gt == extract_classes(g_segm).n_cl
        m == extract_both_masks(e_segm, g_segm, u.cl, u.n_cl)
    IN  IF m.exc # NoExc THEN Raised(m.exc)
        ELSE LET st == [i \in 1..Len(u.cl) |->
                          mean_IU_class(m.eval_mask.masks, m.gt_mask.masks, i)]
                 IU == [i \in 1..u.n_cl |-> st[i].v]
             IN  Returned(TrueDivide(np_sum_num(IU),
                                     Whole(mean_IU_divisor(u.n_cl, n_cl_gt))),
                          st)

(* One pass of the loop of frequency_weighted_IU. *)
frequency_weighted_IU_class(eval_mask, gt_mask, i) ==
    LET c == Counts(eval_mask, gt_mask, i)
        den == IU_denominator(c.t_i, c.n_ij, c.n_ii)
    IN  IF IU_skip(np_sum(eval_mask[i]), np_sum(gt_mask[i]))
        THEN [skipped |-> TRUE, n_ii |-> 0, t_i |-> 0, n_ij |-> 0, den |-> 0,
              v |-> Whole(0)]
        ELSE [skipped |-> FALSE, n_ii |-> c.n_ii, t_i |-> c.t_i,
              n_ij |-> c.n_ij, den |-> den,
              v |-> weighted_IU_quotient(c.n_ii, c.t_i, c.n_ij)]

frequency_weighted_IU(e_segm, g_segm) ==
    LET u == union_classes(e_segm, g_segm)
        m == extract_both_masks(e_segm, g_segm, u.cl, u.n_cl)
    IN  IF m.exc # NoExc THEN Raised(m.exc)
        ELSE LET st == [i \in 1..Len(u.cl) |->
                          frequency_weighted_IU_class(
                            m.eval_mask.masks, m.gt_mask.masks, i)]
                 w == [i \in 1..u.n_cl |-> st[i].v]
                 sum_k_t_k == get_pixel_area(e_segm)
             IN  IF sum_k_t_k.exc # NoExc THEN Raised(sum_k_t_k.exc)
                 ELSE Returned(TrueDivide(np_sum_num(w), Whole(sum_k_t_k.val)),
                               st)

(* ------------------------- similarity scores ------------------------- *)

(* Tensor elements: the multiples of 1/2 between -MaxK/2 and MaxK/2. *)
TensorValues == {Rat(k, 2) : k \in (-MaxK)..MaxK}

Tensors(n) == {[shape |-> <<n>>, data |-> d] : d \in [1..n -> TensorValues]}

(* t.contiguous().view(-1): the elements in row-major order. *)
view_flat(t) == t.data

(* (a * b).sum() of two flat tensors of one length. *)
RECURSIVE sum_of_products(_, _)
sum_of_products(a, b) ==
    IF a = <<>> THEN Whole(0)
    ELSE Add(Mul(Head(a), Head(b)), sum_of_products(Tail(a), Tail(b)))

smooth == 1

(* Mutant of dice_coefficient: the disabled loss form, 1 - coefficient. *)
dice_coefficient_as_loss(intersection, A_sum, B_sum) ==
    Add(Whole(1),
        Neg(TrueDivide(Add(Mul(Whole(2), intersection), Whole(smooth)),
                       Add(Add(A_sum, B_sum), Whole(smooth)))))

(* (2. * intersection + smooth) / (A_sum + B_sum + smooth) *)
dice_coefficient(intersection, A_sum, B_sum) ==
    TrueDivide(Add(Mul(Whole(2), intersection), Whole(smooth)),
               Add(Add(A_sum, B_sum), Whole(smooth)))

dice_loss(p, t) ==
    LET iflat == view_flat(p)
        tflat == view_flat(t)
        intersection == sum_of_products(iflat, tflat)
        A_sum == sum_of_products(iflat, iflat)
        B_sum == sum_of_products(tflat, tflat)
    IN  Returned(dice_coefficient(intersection, A_sum, B_sum),
                 <<intersection, A_sum, B_sum>>)

(* (intersection + smooth) / (A_sum + B_sum - intersection + smooth) *)
jaccard_coefficient(intersection, A_sum, B_sum) ==
    TrueDivide(Add(intersection, Whole(smooth)),
               Add(Add(Add(A_sum, B_sum), Neg(intersection)), Whole(smooth)))

jaccard(p, t) ==
    LET iflat == view_flat(p)
        tflat == view_flat(t)
        intersection == sum_of_products(iflat, tflat)
        A_sum == sum_of_products(iflat, iflat)
        B_sum == sum_of_products(tflat, tflat)
    IN  Returned(jaccard_coefficient(intersection, A_sum, B_sum),
                 <<intersection, A_sum, B_sum>>)

(* --------------------------- state machine --------------------------- *)

(* No array / no value: the variables a call does not use. *)
None == [shape |-> <<>>, data |-> <<>>]
NoRet == [exc |-> NoExc, val |-> NoValue, stats |-> <<>>]

(* The class sets handed to extract_masks: sorted sets of labels. *)
ClassSets == {SortedSeq(S) : S \in SUBSET Labels}

(* Two label volumes of one three-axis shape. *)
Init ==
    /\ \E s \in ShapesOfRank(NumAxes) :
          /\ eval_segm \in ArraysOfShape(s)
          /\ gt_segm \in ArraysOfShape(s)
    /\ pred = None
    /\ target = None
    /\ pc = "ready"
    /\ arg = <<>>
    /\ ret = NoRet

(* a[k, ...]: the k-th slice of an array along its first axis. *)
Slice(a, k) ==
    LET m == Prod(Tail(a.shape))
    IN  [shape |-> Tail(a.shape),
         data |-> SubSeq(a.data, (k - 1) * m + 1, k * m)]

Slices(a) ==
    IF a.shape = <<>> THEN {} ELSE {Slice(a, k) : k \in 1..a.shape[1]}

(* A label array of zero to three axes compared with itself or, as the     *)
(* script at the end of the file does, with one of its slices.             *)
InitSelf ==
    /\ \E r \in 0..NumAxes : gt_segm \in Volumes(r)
    /\ eval_segm \in {gt_segm} \cup Slices(gt_segm)
    /\ pred = None
    /\ target = None
    /\ pc = "ready"
    /\ arg = <<>>
    /\ ret = NoRet

(* Two tensors of one shape. *)
InitSim ==
    /\ \E n \in 0..MaxElems :
          /\ pred \in Tensors(n)
          /\ target \in Tensors(n)
    /\ eval_segm = None
    /\ gt_segm = None
    /\ pc = "ready"
    /\ arg = <<>>
    /\ ret = NoRet

inputs == <<eval_segm, gt_segm, pred, target>>

CallPixelAccuracy ==
    /\ pc = "ready"
    /\ pc' = "pixel_accuracy"
    /\ arg' = <<>>
    /\ ret' = pixel_accuracy(eval_segm, gt_segm)
    /\ UNCHANGED inputs

CallMeanAccuracy ==
    /\ pc = "ready"
    /\ pc' = "mean_accuracy"
    /\ arg' = <<>>
    /\ ret' = mean_accuracy(eval_segm, gt_segm)
    /\ UNCHANGED inputs

CallMeanIU ==
    /\ pc = "ready"
    /\ pc' = "mean_IU"
    /\ arg' = <<>>
    /\ ret' = mean_IU(eval_segm, gt_segm)
    /\ UNCHANGED inputs

CallFrequencyWeightedIU ==
    /\ pc = "ready"
    /\ pc' = "frequency_weighted_IU"
    /\ arg' = <<>>
    /\ ret' = frequency_weighted_IU(eval_segm, gt_segm)
    /\ UNCHANGED inputs

(* extract_both_masks as the metrics call it: with the classes of the      *)
(* ground truth (pixel_accuracy, mean_accuracy) or with the union of both  *)
(* volumes' classes (mean_IU, frequency_weighted_IU).                      *)
CallExtractBothMasks ==
    /\ pc = "ready"
    /\ \E c \in {extract_classes(gt_segm), union_classes(eval_segm, gt_segm)} :
          /\ arg' = c.cl
          /\ ret' = extract_both_masks(eval_segm, gt_segm, c.cl, c.n_cl)
    /\ pc' = "extract_both_masks"
    /\ UNCHANGED inputs

(* extract_masks with any class set and n_cl = len(cl), as every caller    *)
(* passes it.                                                              *)
CallExtractMasks ==
    /\ pc = "ready"
    /\ \E cl \in ClassSets :
          /\ arg' = cl
          /\ ret' = extract_masks(gt_segm, cl, Len(cl))
    /\ pc' = "extract_masks"
    /\ UNCHANGED inputs

CallSegmSize ==
    /\ pc = "ready"
    /\ pc' = "segm_size"
    /\ arg' = <<>>
    /\ ret' = segm_size(gt_segm)
    /\ UNCHANGED inputs

CallDiceLoss ==
    /\ pc = "ready"
    /\ pc' = "dice_loss"
    /\ arg' = <<>>
    /\ ret' = dice_loss(pred, target)
    /\ UNCHANGED inputs

CallJaccard ==
    /\ pc = "ready"
    /\ pc' = "jaccard"
    /\ arg' = <<>>
    /\ ret' = jaccard(pred, target)
    /\ UNCHANGED inputs

Next ==
    \/ CallMeanIU
    \/ CallFrequencyWeightedIU

NextMasks == CallExtractBothMasks

NextSelf ==
    \/ CallPixelAccuracy
    \/ CallMeanAccuracy
    \/ CallMeanIU
    \/ CallFrequencyWeightedIU
    \/ CallSegmSize
    \/ CallExtractMasks

NextSim ==
    \/ CallDiceLoss
    \/ CallJaccard

(* Spec: the IU metrics on two equal-shaped label volumes.  SpecMasks: the *)
(* mask stacks built for such a pair.  SpecSelf: the metrics and the       *)
(* auxiliary functions on one array of zero to three axes compared with    *)
(* itself or with a slice of it.  SpecSim: the similarity scores of two    *)
(* tensors.                                                                *)
Spec == Init /\ [][Next]_vars
SpecMasks == Init /\ [][NextMasks]_vars
SpecSelf == InitSelf /\ [][NextSelf]_vars
SpecSim == InitSim /\ [][NextSim]_vars

(* ----------------------------- properties ---------------------------- *)

(* The voxels of segm labelled c, the labels occurring in segm. *)
Occ(segm, c) == {v \in DOMAIN segm.data : segm.data[v] = c}
LabelsOf(segm) == {segm.data[v] : v \in DOMAIN segm.data}
UnionLabels == LabelsOf(eval_segm) \cup LabelsOf(gt_segm)

IsVolume(segm) == Len(segm.shape) = NumAxes
NonEmpty(segm) == Len(segm.data) > 0

(* Intersection over union of class c between eval_segm and gt_segm, as a  *)
(* ratio of set sizes; 0 when c is absent from either volume.              *)
RefIoU(c) ==
    LET E == Occ(eval_segm, c)
        G == Occ(gt_segm, c)
        I == E \cap G
    IN  IF E = {} \/ G = {} THEN Whole(0)
        ELSE Rat(Cardinality(I),
                 Cardinality(G) + Cardinality(E) - Cardinality(I))

RECURSIVE SumRefIoU(_)
SumRefIoU(S) ==
    IF S = {} THEN Whole(0)
    ELSE LET c == CHOOSE x \in S : TRUE
         IN  Add(RefIoU(c), SumRefIoU(S \ {c}))

(* C1: for equal-shaped non-empty volumes, mean_IU is the sum of the       *)
(* per-class IoU over the union of both volumes' labels divided by the     *)
(* number of distinct ground-truth labels, not by the size of the union.   *)
C1_MeanIUDividesByGtClassCount ==
    (pc = "mean_IU" /\ NonEmpty(gt_segm)) =>
        /\ ret.exc = NoExc
        /\ ret.val = TrueDivide(SumRefIoU(UnionLabels),
                                Whole(Cardinality(LabelsOf(gt_segm))))

(* gt holds classes {0,1}, eval holds {0,1,2}: the divisor is 2, not 3. *)
C1_Witness ==
    /\ pc = "mean_IU"
    /\ LabelsOf(gt_segm) = {0, 1}
    /\ LabelsOf(eval_segm) = {0, 1, 2}
    /\ ret.val # Whole(0)
    /\ ret.val = TrueDivide(SumRefIoU({0, 1, 2}), Whole(2))
    /\ ret.val # TrueDivide(SumRefIoU({0, 1, 2}), Whole(3))

C4_SelfPixelAccuracyIsOne ==
    (pc = "pixel_accuracy" /\ IsVolume(gt_segm) /\ eval_segm = gt_segm
        /\ NonEmpty(gt_segm)) =>
        /\ ret.exc = NoExc
        /\ ret.val = Whole(1)
        /\ ret.stats[1].sum_n_ii = ret.stats[1].sum_t_i
        /\ ret.stats[1].sum_t_i = Len(gt_segm.data)

C4_Witness ==
    /\ pc = "pixel_accuracy"
    /\ IsVolume(gt_segm)
    /\ eval_segm = gt_segm
    /\ Cardinality(LabelsOf(gt_segm)) >= 2
    /\ ret.val = Whole(1)

(* C5: for a ground truth of three axes and no voxels, pixel_accuracy and  *)
(* mean_accuracy both return 0, never an undefined (nan) value.            *)
C5_EmptyGroundTruthGivesZero ==
    (pc \in {"pixel_accuracy", "mean_accuracy"} /\ IsVolume(gt_segm)
        /\ ~NonEmpty(gt_segm) /\ eval_segm.shape = gt_segm.shape) =>
        (ret.exc = NoExc /\ ret.val = Whole(0))

(* C6: segm_size raises on an array of fewer than three axes and returns   *)
(* the three axis lengths otherwise; the error passes through              *)
(* extract_masks, and each of the four metrics called with an eval_segm of *)
(* fewer than three axes ends in it and returns no score.                  *)
C6_ShapeErrorPropagates ==
    /\ pc = "segm_size" =>
          IF Len(gt_segm.shape) < 3
          THEN ret.exc = IndexError
          ELSE ret.exc = NoExc /\ ret.val = gt_segm.shape
    /\ pc = "extract_masks" =>
          IF Len(gt_segm.shape) < 3
          THEN ret.exc = IndexError /\ ret.masks = <<>>
          ELSE ret.exc = NoExc
    /\ (pc \in {"pixel_accuracy", "mean_accuracy", "mean_IU",
                "frequency_weighted_IU"} /\ Len(eval_segm.shape) < 3) =>
          (ret.exc = IndexError /\ ret.val = NoValue /\ ret.stats = <<>>)

C6_Witness ==
    /\ pc = "mean_IU"
    /\ IsVolume(gt_segm)
    /\ Len(eval_segm.shape) = 2
    /\ NonEmpty(eval_segm)
    /\ ret.exc = IndexError

(* C7: for a tensor x with a nonzero element, dice_loss(x, x) is 1: the    *)
(* numerator 2*sum(x*x) + smooth equals the denominator                    *)
(* sum(x*x) + sum(x*x) + smooth.                                           *)
C7_SelfDiceIsOne ==
    (pc = "dice_loss" /\ pred = target
        /\ \E i \in DOMAIN pred.data : pred.data[i] # Whole(0)) =>
        /\ ret.exc = NoExc
        /\ ret.val = Whole(1)
        /\ Add(Mul(Whole(2), ret.stats[1]), Whole(1))
             = Add(Add(ret.stats[2], ret.stats[3]), Whole(1))

C7_Witness ==
    /\ pc = "dice_loss"
    /\ pred = target
    /\ \E i \in DOMAIN pred.data : pred.data[i] # Whole(0)
    /\ \E i \in DOMAIN pred.data : pred.data[i].d = 2
    /\ ret.val = Whole(1)

(* A mask stack built from segm against cl: one slice per class, each of   *)
(* segm's shape and true exactly where segm equals its class, so its sum   *)
(* counts the class; a voxel is in exactly one slice when cl holds every   *)
(* label of segm.                                                          *)
MaskStackOf(stack, segm, cl) ==
    /\ stack.exc = NoExc
    /\ stack.shape = <<Len(cl)>> \o segm.shape
    /\ Len(stack.masks) = Len(cl)
    /\ \A i \in 1..Len(cl) :
          /\ DOMAIN stack.masks[i] = DOMAIN segm.data
          /\ \A v \in DOMAIN segm.data :
                /\ stack.masks[i][v] \in {0, 1}
                /\ (stack.masks[i][v] = 1) <=> (segm.data[v] = cl[i])
          /\ np_sum(stack.masks[i]) = Cardinality(Occ(segm, cl[i]))
    /\ (LabelsOf(segm) \subseteq {cl[i] : i \in 1..Len(cl)}) =>
          \A v \in DOMAIN segm.data :
              Cardinality({i \in 1..Len(cl) : stack.masks[i][v] = 1}) = 1

(* C8: extract_masks(segm, cl, len(cl)) returns len(cl) slices of segm's   *)
(* shape, slice i true exactly at the voxels where segm equals cl[i];      *)
(* extract_both_masks builds both stacks against the same cl.              *)
C8_MaskStacksAlignedToClassSet ==
    pc = "extract_both_masks" =>
        /\ ret.exc = NoExc
        /\ MaskStackOf(ret.eval_mask, eval_segm, arg)
        /\ MaskStackOf(ret.gt_mask, gt_segm, arg)

C8_Witness ==
    /\ pc = "extract_both_masks"
    /\ Len(arg) = 3
    /\ LabelsOf(eval_segm) # LabelsOf(gt_segm)
    /\ \E i \in 1..Len(arg) : np_sum(ret.eval_mask.masks[i]) = 0
    /\ \E i \in 1..Len(arg) : np_sum(ret.gt_mask.masks[i]) = 0
    /\ \E i \in 1..Len(arg) : np_sum(ret.gt_mask.masks[i]) = 2

(* C9: in the loops of mean_IU and frequency_weighted_IU a class absent    *)
(* from eval or from gt is skipped and keeps 0; for every other class      *)
(* n_ii <= min(t_i, n_ij) and the denominator t_i + n_ij - n_ii is at      *)
(* least 1, so no division by zero happens and the IoU is within [0, 1].   *)
C9_NoPerClassDivisionByZero ==
    (pc \in {"mean_IU", "frequency_weighted_IU"}) =>
        LET cl == SortedSeq(UnionLabels)
        IN  /\ ret.exc = NoExc
            /\ Len(ret.stats) = Len(cl)
            /\ \A i \in DOMAIN ret.stats :
                  LET st == ret.stats[i]
                  IN  IF Occ(eval_segm, cl[i]) = {} \/ Occ(gt_segm, cl[i]) = {}
                      THEN st.skipped /\ st.v = Whole(0)
                      ELSE /\ ~st.skipped
                           /\ st.t_i = Cardinality(Occ(gt_segm, cl[i]))
                           /\ st.n_ij = Cardinality(Occ(eval_segm, cl[i]))
                           /\ st.n_ii <= st.t_i
                           /\ st.n_ii <= st.n_ij
                           /\ st.den = st.t_i + st.n_ij - st.n_ii
                           /\ st.den >= 1
                           /\ IsNum(st.v)
                           /\ 0 <= st.n_ii /\ st.n_ii <= st.den
                           /\ pc = "mean_IU" =>
                                 (Leq(Whole(0), st.v) /\ Leq(st.v, Whole(1)))

C9_Witness ==
    /\ pc = "frequency_weighted_IU"
    /\ \E i \in DOMAIN ret.stats : ret.stats[i].skipped
    /\ \E i \in DOMAIN ret.stats :
          /\ ~ret.stats[i].skipped
          /\ ret.stats[i].n_ii = 0
    /\ \E i \in DOMAIN ret.stats :
          /\ ~ret.stats[i].skipped
          /\ ret.stats[i].n_ii > 0
          /\ ret.stats[i].n_ii < ret.stats[i].den

(* C10: for equal-shaped non-empty volumes 0 <= mean_IU <= 1: only a class *)
(* occurring in gt has a nonzero IoU, so at most n_cl_gt terms are nonzero *)
(* and each is at most 1.                                                  *)
C10_MeanIUWithinUnitInterval ==
    (pc = "mean_IU" /\ NonEmpty(gt_segm)) =>
        LET cl == SortedSeq(UnionLabels)
            gt_cl == LabelsOf(gt_segm)
        IN  /\ ret.exc = NoExc
            /\ IsNum(ret.val)
            /\ Leq(Whole(0), ret.val)
            /\ Leq(ret.val, Whole(1))
            /\ \A i \in DOMAIN ret.stats :
                  ret.stats[i].v # Whole(0) =>
                      /\ cl[i] \in gt_cl
                      /\ Leq(ret.stats[i].v, Whole(1))
            /\ Cardinality({i \in DOMAIN ret.stats : ret.stats[i].v # Whole(0)})
                 <= Cardinality(gt_cl)

C10_Witness ==
    /\ pc = "mean_IU"
    /\ Cardinality(UnionLabels) > Cardinality(LabelsOf(gt_segm))
    /\ ret.val # Whole(0)
    /\ ret.val # Whole(1)
    /\ Leq(ret.val, Whole(1))

=============================================================================
